---- MODULE Spec2Model ----
(***************************************************************************)
(* A model of the stress-level web application: the /predictor handler of  *)
(* app.py (feature collection, classification, recommendation buckets,     *)
(* packed report text, chart file) and the retry loop of                   *)
(* chatbot_gemini.get_bot_response.                                        *)
(*                                                                         *)
(* Conventions                                                             *)
(*  - a submitted form value is a sequence of one-character strings, so    *)
(*    that int() can be modelled by what it does to the characters;        *)
(*  - a probability triple is a triple of naturals summing to PScale       *)
(*    (probability = count / PScale);                                      *)
(*  - a multi-line text is a sequence of tokens, NL standing for "\n" and  *)
(*    every other token for the whole content of one non-empty line;       *)
(*  - non-ASCII characters of string literals are written in ASCII.        *)
(***************************************************************************)
EXTENDS Integers, Sequences, FiniteSets, TLC

VARIABLES
    model_loaded,           \* app.py: model is not None (set once at import)
    session_username,       \* flask_session["username"], NoKey when absent
    req_method,             \* request.method of the predictor request
    req_form,               \* request.form restricted to MODEL_FEATURE_ORDER
    env,                    \* what the collaborators do during the request
    pc,                     \* "pending": request not handled yet, "done"
    resp_kind,              \* what the handler returned
    flashes,                \* messages flashed by the handler, in order
    input_data,             \* the handler's local input_data
    feature_values,         \* the handler's local feature_values
    clf_calls,              \* the vectors handed to model.predict_proba
    prediction_result,      \* the handler's local prediction_result
    recommendations_packed, \* recommendations_packed given to the template
    chart_file,             \* content of static/chart.png
    c_pc,                   \* concurrent requests: where each request is
    c_in,                   \* concurrent requests: each request's inputs
    c_local,                \* concurrent requests: each request's locals
    c_chart_at_return,      \* concurrent requests: chart.png at its return
    bot_pc,                 \* get_bot_response: "loop" or "returned"
    bot_max_retries,        \* get_bot_response: the max_retries argument
    bot_retries,            \* get_bot_response: the local retries
    bot_attempts,           \* number of send_message calls made
    bot_slept,              \* seconds spent in time.sleep
    bot_printed,            \* the error messages printed, in order
    bot_result,             \* the returned text, NotReturned before the return
    users,                  \* the users table: username -> password
    reviews,                \* the reviews table, in order of insertion
    session_chat,           \* flask_session["chat_history"], absent or a list
    s_req                   \* the request the last step handled

cvars == <<c_pc, c_in, c_local, c_chart_at_return>>

bvars == <<bot_pc, bot_max_retries, bot_retries, bot_attempts, bot_slept,
           bot_printed, bot_result>>

svars == <<users, reviews, session_chat, s_req>>

vars == <<model_loaded, session_username, req_method, req_form, env, pc,
          resp_kind, flashes, input_data, feature_values, clf_calls,
          prediction_result, recommendations_packed, chart_file, cvars, bvars,
          svars>>

\* the requests in flight in the concurrent specification
Requests == { "A", "B" }

-----------------------------------------------------------------------------
(* Bounds of the model *)

\* probabilities are multiples of 1/PScale
PScale == 6

\* number of form fields that differ from the form's common value
MaxOverrides == 1

-----------------------------------------------------------------------------
(* Program constants *)

MODEL_FEATURE_ORDER ==
    << "anxiety_level", "self_esteem", "mental_health_history", "depression",
       "headache", "blood_pressure", "sleep_quality", "breathing_problem",
       "noise_level", "living_conditions", "safety", "basic_needs",
       "academic_performance", "study_load", "teacher_student_relationship",
       "future_career_concerns", "social_support", "peer_pressure",
       "extracurricular_activities", "bullying" >>

Features == { MODEL_FEATURE_ORDER[i] : i \in DOMAIN MODEL_FEATURE_ORDER }

RECOMMENDATIONS_DB ==
    [ anxiety_level |-> "Try practicing the 4-7-8 breathing technique. Also, consider mindfulness apps for guided meditation.",
      self_esteem |-> "Practice positive self-talk. Each day, write down three things you did well, no matter how small.",
      depression |-> "Engage in light physical activity, like a 15-minute walk outside. Sunlight and movement can have a significant positive impact on mood.",
      sleep_quality |-> "Establish a consistent sleep schedule. Avoid screens for at least an hour before bed to improve your natural sleep cycle.",
      academic_performance |-> "Break down large assignments into smaller, manageable tasks. Use a planner to schedule your work.",
      social_support |-> "Schedule regular calls or meetups with friends and family. A strong social connection is a powerful buffer against stress." ]

high_threshold == 7
low_threshold == 3
default_value == 5

stress_labels == << "Low", "Medium", "High" >>

GENERIC_TIP == "Consider consulting a counselor or adopting stress-reduction strategies relevant to this area."
MAINTAIN_PREFIX == "Good - keep doing this. "
MAINTAIN_GENERIC_TIP == "This parameter is in a low-risk range. Maintain your current habits that support this."

AFFECTED_HEADER == "Affected Parameters:"
MAINTAIN_HEADER == "Parameters to Maintain:"
FALLBACK_LINE == "No specific high-risk parameters detected. Inputs look balanced."

FLASH_NOT_LOADED == "The prediction model is not loaded. Please contact the administrator."
FLASH_PREDICTION_ERROR == "An error occurred during prediction. Please try again."

\* the value standing for a key that is not in flask_session; a username is
\* a sequence of one-character strings
NoKey == << "<no key>" >>
None == [none |-> TRUE]
NotReturned == "<not returned>"

-----------------------------------------------------------------------------
(* int(request.form.get(feature, 5)) *)

Digits == { "0", "1", "2", "3", "4", "5", "6", "7", "8", "9" }
Whitespace == { " ", "\t", "\n" }

DigitVal(c) ==
    CASE c = "0" -> 0 [] c = "1" -> 1 [] c = "2" -> 2 [] c = "3" -> 3
      [] c = "4" -> 4 [] c = "5" -> 5 [] c = "6" -> 6 [] c = "7" -> 7
      [] c = "8" -> 8 [] c = "9" -> 9

RECURSIVE LStrip(_)
LStrip(s) ==
    IF s # <<>> /\ Head(s) \in Whitespace THEN LStrip(Tail(s)) ELSE s

RECURSIVE RStrip(_)
RStrip(s) ==
    IF s # <<>> /\ s[Len(s)] \in Whitespace
    THEN RStrip(SubSeq(s, 1, Len(s) - 1))
    ELSE s

Strip(s) == RStrip(LStrip(s))

\* the digit part of an integer literal: digits, single underscores between
WellFormedDigits(d) ==
    /\ d # <<>>
    /\ \A i \in 1..Len(d) : d[i] \in Digits \cup {"_"}
    /\ d[1] # "_"
    /\ d[Len(d)] # "_"
    /\ \A i \in 1..(Len(d) - 1) : ~(d[i] = "_" /\ d[i + 1] = "_")

RECURSIVE DigitsValue(_, _)
DigitsValue(d, acc) ==
    IF d = <<>> THEN acc
    ELSE IF Head(d) = "_" THEN DigitsValue(Tail(d), acc)
    ELSE DigitsValue(Tail(d), acc * 10 + DigitVal(Head(d)))

\* int(s) for a string s: [ok |-> TRUE, val |-> n], or ok = FALSE for ValueError
IntOfStr(s) ==
    LET t == Strip(s)
        signed == t # <<>> /\ Head(t) \in {"+", "-"}
        d == IF signed THEN Tail(t) ELSE t
    IN  IF WellFormedDigits(d)
        THEN [ok |-> TRUE,
              val |-> IF signed /\ Head(t) = "-"
                      THEN 0 - DigitsValue(d, 0)
                      ELSE DigitsValue(d, 0)]
        ELSE [ok |-> FALSE, val |-> 0]

\* a form field: present with its characters, or absent from the form
Absent == [present |-> FALSE, raw |-> <<>>]
Field(s) == [present |-> TRUE, raw |-> s]

\* variant: the except branch falls back to 0 instead of 5
CollectValueZeroFallback(field) ==
    IF ~field.present THEN default_value
    ELSE LET r == IntOfStr(field.raw)
         IN  IF r.ok THEN r.val ELSE 0

\* variant: the collected value is clamped to the nominal scale 1..10
CollectValueClamped(field) ==
    IF ~field.present THEN default_value
    ELSE LET r == IntOfStr(field.raw)
         IN  IF ~r.ok THEN default_value
             ELSE IF r.val < 1 THEN 1
             ELSE IF r.val > 10 THEN 10
             ELSE r.val

\* lines 205-208: val = int(request.form.get(feature, 5)), except: val = 5
CollectValue(field) ==
    IF ~field.present THEN default_value
    ELSE LET r == IntOfStr(field.raw)
         IN  IF r.ok THEN r.val ELSE default_value

\* lines 202-210: the loop over MODEL_FEATURE_ORDER
CollectInputData(form) ==
    [ i \in DOMAIN MODEL_FEATURE_ORDER |-> CollectValue(form[MODEL_FEATURE_ORDER[i]]) ]

CollectFeatureValues(form) ==
    [ f \in Features |-> CollectValue(form[f]) ]

-----------------------------------------------------------------------------
(* Classification: lines 212-215 *)

\* variant: the scan keeps the last index holding the largest value
RECURSIVE ArgMaxScanLast(_, _, _)
ArgMaxScanLast(p, i, best) ==
    IF i > Len(p) THEN best
    ELSE ArgMaxScanLast(p, i + 1, IF p[i] >= p[best] THEN i ELSE best)

\* np.argmax: the scan keeps the first index holding the largest value
RECURSIVE ArgMaxScan(_, _, _)
ArgMaxScan(p, i, best) ==
    IF i > Len(p) THEN best
    ELSE ArgMaxScan(p, i + 1, IF p[i] > p[best] THEN i ELSE best)

\* predicted_index, zero-based as in the code
ArgMax(p) == ArgMaxScan(p, 2, 1) - 1

StressLevel(p) == stress_labels[ArgMax(p) + 1]

\* probabilities[k] * 100, in units of 1/PScale percent
Percentages(p) == [ Low |-> p[1] * 100, Medium |-> p[2] * 100, High |-> p[3] * 100 ]

-----------------------------------------------------------------------------
(* Recommendation buckets: lines 217-234 *)

AffectedTip(feature) ==
    IF feature \in DOMAIN RECOMMENDATIONS_DB
    THEN << RECOMMENDATIONS_DB[feature] >>
    ELSE << GENERIC_TIP >>

MaintainTip(feature) ==
    IF feature \in DOMAIN RECOMMENDATIONS_DB
    THEN << MAINTAIN_PREFIX, RECOMMENDATIONS_DB[feature] >>
    ELSE << MAINTAIN_GENERIC_TIP >>

\* variant: strict comparison with the high threshold
IsAffectedStrict(value) == value > high_threshold

IsAffected(value) == value >= high_threshold

\* variant: a separate if, compared with the wrong threshold
IsMaintainOverlap(value) == value <= high_threshold

\* the elif branch: reached only when the value is not affected
IsMaintain(value) == ~IsAffected(value) /\ value <= low_threshold

\* the loop over feature_values.items(), which iterates in insertion order,
\* that is in the order of MODEL_FEATURE_ORDER
RECURSIVE AffectedFrom(_, _)
AffectedFrom(fv, i) ==
    IF i > Len(MODEL_FEATURE_ORDER) THEN <<>>
    ELSE LET f == MODEL_FEATURE_ORDER[i]
         IN  IF IsAffected(fv[f])
             THEN << [factor |-> f, value |-> fv[f], tip |-> AffectedTip(f)] >>
                  \o AffectedFrom(fv, i + 1)
             ELSE AffectedFrom(fv, i + 1)

RECURSIVE MaintainFrom(_, _)
MaintainFrom(fv, i) ==
    IF i > Len(MODEL_FEATURE_ORDER) THEN <<>>
    ELSE LET f == MODEL_FEATURE_ORDER[i]
         IN  IF IsMaintain(fv[f])
             THEN << [factor |-> f, value |-> fv[f], tip |-> MaintainTip(f)] >>
                  \o MaintainFrom(fv, i + 1)
             ELSE MaintainFrom(fv, i + 1)

Affected(fv) == AffectedFrom(fv, 1)
Maintain(fv) == MaintainFrom(fv, 1)

-----------------------------------------------------------------------------
(* Packed recommendations: lines 249-269 *)

\* a["factor"].replace("_", " ").title(), tabulated for the twenty names
HumanName ==
    [
      anxiety_level |-> "Anxiety Level",
      self_esteem |-> "Self Esteem",
      mental_health_history |-> "Mental Health History",
      depression |-> "Depression",
      headache |-> "Headache",
      blood_pressure |-> "Blood Pressure",
      sleep_quality |-> "Sleep Quality",
      breathing_problem |-> "Breathing Problem",
      noise_level |-> "Noise Level",
      living_conditions |-> "Living Conditions",
      safety |-> "Safety",
      basic_needs |-> "Basic Needs",
      academic_performance |-> "Academic Performance",
      study_load |-> "Study Load",
      teacher_student_relationship |-> "Teacher Student Relationship",
      future_career_concerns |-> "Future Career Concerns",
      social_support |-> "Social Support",
      peer_pressure |-> "Peer Pressure",
      extracurricular_activities |-> "Extracurricular Activities",
      bullying |-> "Bullying" ]

NL == [nl |-> TRUE]
TextLine(s) == << [text |-> s] >>
BlankLine == <<>>

\* f"{human} ({value}): {tip}"
ItemLine(item) ==
    << [human |-> HumanName[item.factor], value |-> item.value, tip |-> item.tip] >>

ItemLines(items) == [ i \in 1..Len(items) |-> ItemLine(items[i]) ]

\* variant: no blank line between the two sections
RecLinesNoSeparator(affected, maintain) ==
    LET a == IF affected # <<>>
             THEN << TextLine(AFFECTED_HEADER) >> \o ItemLines(affected)
             ELSE <<>>
        m == IF maintain # <<>>
             THEN << TextLine(MAINTAIN_HEADER) >> \o ItemLines(maintain)
             ELSE <<>>
    IN  IF a \o m = <<>> THEN << TextLine(FALLBACK_LINE) >> ELSE a \o m

\* rec_lines as built by lines 250-266
RecLines(affected, maintain) ==
    LET a == IF affected # <<>>
             THEN << TextLine(AFFECTED_HEADER) >> \o ItemLines(affected)
             ELSE <<>>
        m == IF maintain # <<>>
             THEN (IF a # <<>> THEN << BlankLine >> ELSE <<>>)
                  \o << TextLine(MAINTAIN_HEADER) >> \o ItemLines(maintain)
             ELSE <<>>
    IN  IF a \o m = <<>> THEN << TextLine(FALLBACK_LINE) >> ELSE a \o m

\* "\n".join(lines)
RECURSIVE Join(_)
Join(lines) ==
    IF lines = <<>> THEN <<>>
    ELSE IF Len(lines) = 1 THEN lines[1]
    ELSE lines[1] \o << NL >> \o Join(Tail(lines))

PackRecommendations(affected, maintain) == Join(RecLines(affected, maintain))

-----------------------------------------------------------------------------
(* The inputs of a predictor request *)

\* the submitted strings the model draws form values from
Literals ==
    { <<"0">>, <<"3">>, <<"4">>, <<"6">>, <<"7">>, <<"9", "9">>,
      <<"-", "1">>, <<" ", "3", " ">>, <<"1", "_", "0">>,
      <<>>, <<"a", "b", "c">>, <<"7", ".", "5">> }

FieldValues == { Absent } \cup { Field(s) : s \in Literals }

\* the value every field has unless overridden
CommonValues == { Absent, Field(<<"9">>), Field(<<"2">>) }

RECURSIVE FormsWith(_)
FormsWith(n) ==
    IF n = 0 THEN { [f \in Features |-> c] : c \in CommonValues }
    ELSE { [g EXCEPT ![f] = v] : g \in FormsWith(n - 1), f \in Features, v \in FieldValues }

Forms == FormsWith(MaxOverrides)

AllFive == [f \in Features |-> Field(<<"5">>)]

\* the example of the specification:
\* anxiety_level 9, sleep_quality 2, academic_performance 5, all others 5
ExampleForm ==
    [AllFive EXCEPT !["anxiety_level"] = Field(<<"9">>),
                    !["sleep_quality"] = Field(<<"2">>)]

MixedForm ==
    [f \in Features |->
        CASE f = "anxiety_level" -> Field(<<"9", "9">>)
          [] f = "self_esteem" -> Field(<<"0">>)
          [] f = "headache" -> Field(<<"a", "b", "c">>)
          [] f = "bullying" -> Field(<<"-", "1">>)
          [] f = "safety" -> Field(<<"7">>)
          [] f = "basic_needs" -> Field(<<"3">>)
          [] f = "study_load" -> Field(<<"4">>)
          [] f = "peer_pressure" -> Field(<<"6">>)
          [] f = "sleep_quality" -> Field(<<"7", ".", "5">>)
          [] OTHER -> Absent]

\* the forms every environment and every guard is combined with
SmallForms == { AllFive, ExampleForm, MixedForm }

\* what predict_proba can return: counts of PScale votes over the 3 classes
ProbTriples ==
    { <<a, b, PScale - a - b>> : a \in 0..PScale, b \in 0..PScale } \cap
    { <<a, b, c>> : a \in 0..PScale, b \in 0..PScale, c \in 0..PScale }

\* the step of the try block at which an exception is raised, if any
Faults == { "none", "predict_proba", "label", "bucket", "pack" }

Envs == [ clf : ProbTriples, fault : Faults, chart_ok : BOOLEAN ]

NominalEnv == [ clf |-> <<1, 2, PScale - 3>>, fault |-> "none", chart_ok |-> TRUE ]

Usernames == { <<"a">> }

NoChart == <<>>
NoFeatureValues == [f \in {} |-> 0]

-----------------------------------------------------------------------------
(* The /predictor handler: lines 187-308 *)

Flash(msg, category) == [message |-> msg, category |-> category]

\* lines 200-269: the try block up to the packed text, run to its end or to
\* the step where e.fault raises. The result gives the locals at that point.
ScoreBlock(form, e) ==
    LET data == CollectInputData(form)
        fv == CollectFeatureValues(form)
        p == e.clf
        affected == Affected(fv)
        maintain == Maintain(fv)
        result == [ level |-> StressLevel(p),
                    probabilities |-> Percentages(p),
                    recommendations |-> affected,
                    maintain |-> maintain,
                    feature_values |-> fv ]
        packed == PackRecommendations(affected, maintain)
        collected == [ raised |-> FALSE, input_data |-> data, feature_values |-> fv,
                       clf_calls |-> << data >>, prediction_result |-> None ]
    IN  IF e.fault \in { "predict_proba", "label", "bucket" }
        THEN [ collected EXCEPT !.raised = TRUE ]
        ELSE IF e.fault = "pack"
        THEN [ collected EXCEPT !.raised = TRUE, !.prediction_result = result ]
        ELSE [ collected EXCEPT
                 !.prediction_result =
                     [ level |-> result.level,
                       probabilities |-> result.probabilities,
                       recommendations |-> result.recommendations,
                       maintain |-> result.maintain,
                       feature_values |-> result.feature_values,
                       packed_recommendations |-> packed ] ]

\* the bar heights drawn by lines 273-283
ChartOf(p) == << p[1] * 100, p[2] * 100, p[3] * 100 >>

\* lines 271-289: static/chart.png after the inner try block; a failure of
\* the drawing is printed and leaves the file as it was
SaveChart(e, chart) == IF e.chart_ok THEN ChartOf(e.clf) ELSE chart

\* variant: no except clause, the exception leaves the handler
HandledNowhere(outcome) ==
    [ resp_kind |-> IF outcome.raised THEN "internal_server_error" ELSE "render_predictor",
      flashes |-> <<>>,
      outcome |-> outcome ]

\* lines 291-293: except Exception: flash the generic message
Handled(outcome) ==
    [ resp_kind |-> "render_predictor",
      flashes |-> IF outcome.raised
                  THEN << Flash(FLASH_PREDICTION_ERROR, "error") >>
                  ELSE <<>>,
      outcome |-> outcome ]

\* lines 295-298
PackedToTemplate(result) ==
    IF result # None /\ "packed_recommendations" \in DOMAIN result
    THEN result.packed_recommendations
    ELSE <<>>

\* line 189: "username" not in flask_session
NotLoggedIn(username) == username = NoKey

\* variant: the model is never checked
ModelUnavailableNever(loaded) == FALSE

\* line 197: if not model
ModelUnavailable(loaded) == ~loaded

NoLocals ==
    [ raised |-> FALSE, input_data |-> <<>>, feature_values |-> NoFeatureValues,
      clf_calls |-> <<>>, prediction_result |-> None ]

\* lines 189-269 and 291-308: everything the handler does but the chart,
\* which is drawn (chart_due) between the packed text and the except clause
PredictorLocals(username, method, loaded, form, e) ==
    IF NotLoggedIn(username)
    THEN [ resp_kind |-> "redirect_login", flashes |-> <<>>,
           outcome |-> NoLocals, chart_due |-> FALSE, packed |-> <<>> ]
    ELSE IF method # "POST"
    THEN [ resp_kind |-> "render_predictor", flashes |-> <<>>,
           outcome |-> NoLocals, chart_due |-> FALSE,
           packed |-> PackedToTemplate(None) ]
    ELSE IF ModelUnavailable(loaded)
    THEN [ resp_kind |-> "render_predictor",
           flashes |-> << Flash(FLASH_NOT_LOADED, "error") >>,
           outcome |-> NoLocals, chart_due |-> FALSE,
           packed |-> PackedToTemplate(None) ]
    ELSE LET h == Handled(ScoreBlock(form, e))
         IN  [ resp_kind |-> h.resp_kind, flashes |-> h.flashes,
               outcome |-> h.outcome, chart_due |-> ~h.outcome.raised,
               packed |-> PackedToTemplate(h.outcome.prediction_result) ]

-----------------------------------------------------------------------------
(* One predictor request, handled without interruption *)

Predictor ==
    /\ pc = "pending"
    /\ pc' = "done"
    /\ \E o \in { PredictorLocals(session_username, req_method, model_loaded,
                                  req_form, env) } :
        /\ resp_kind' = o.resp_kind
        /\ flashes' = flashes \o o.flashes
        /\ input_data' = o.outcome.input_data
        /\ feature_values' = o.outcome.feature_values
        /\ clf_calls' = clf_calls \o o.outcome.clf_calls
        /\ prediction_result' = o.outcome.prediction_result
        /\ recommendations_packed' = o.packed
        /\ chart_file' = IF o.chart_due THEN SaveChart(env, chart_file) ELSE chart_file
    /\ UNCHANGED << model_loaded, session_username, req_method, req_form, env >>
    /\ UNCHANGED << cvars, bvars, svars >>

\* every guard and every environment on the small forms; every form on the
\* full pipeline (logged in, POST, model loaded, nothing raising)
InitInputs ==
    \/ /\ req_form \in SmallForms
       /\ model_loaded \in BOOLEAN
       /\ session_username \in Usernames \cup { NoKey }
       /\ req_method \in { "GET", "POST" }
       /\ env \in Envs
    \/ /\ req_form \in Forms
       /\ model_loaded = TRUE
       /\ session_username \in Usernames
       /\ req_method = "POST"
       /\ env = NominalEnv

\* no request handled yet
InitLocals ==
    /\ pc = "pending"
    /\ resp_kind = "none"
    /\ flashes = <<>>
    /\ input_data = <<>>
    /\ feature_values = NoFeatureValues
    /\ clf_calls = <<>>
    /\ prediction_result = None
    /\ recommendations_packed = <<>>
    /\ chart_file = NoChart

\* no concurrent requests
ConcIdle ==
    /\ c_pc = [r \in Requests |-> "returned"]
    /\ c_in = [r \in Requests |-> [form |-> AllFive, env |-> NominalEnv]]
    /\ c_local = [r \in Requests |-> None]
    /\ c_chart_at_return = [r \in Requests |-> NoChart]

\* no call of get_bot_response
BotIdle ==
    /\ bot_pc = "returned"
    /\ bot_max_retries = 0
    /\ bot_retries = 0
    /\ bot_attempts = 0
    /\ bot_slept = 0
    /\ bot_printed = <<>>
    /\ bot_result = NotReturned

NoUsers == [u \in {} |-> <<>>]
ChatAbsent == [present |-> FALSE, turns |-> <<>>]
NoRequest == [route |-> "none"]

\* the tables and the rest of the session, for the specifications that
\* handle no login, home or advisor request
SessionIdle ==
    /\ users = NoUsers
    /\ reviews = <<>>
    /\ session_chat = ChatAbsent
    /\ s_req = NoRequest

Init ==
    /\ InitInputs
    /\ InitLocals
    /\ ConcIdle
    /\ BotIdle
    /\ SessionIdle

Next == Predictor

Spec == Init /\ [][Next]_vars

-----------------------------------------------------------------------------
(* Two predictor requests served concurrently (threads of one server, or   *)
(* workers sharing the application directory): each runs lines 189-269 on  *)
(* its own locals, then draws the chart into static/chart.png, then        *)
(* returns the rendered page.                                              *)

ConcTriples == { <<PScale, 0, 0>>, <<0, PScale, 0>>, <<1, 1, PScale - 2>> }

ConcEnvs == [ clf : ConcTriples, fault : { "none", "predict_proba" }, chart_ok : BOOLEAN ]

ConcForms == { AllFive, ExampleForm }

ConcScore(r) ==
    /\ c_pc[r] = "start"
    /\ \E o \in { PredictorLocals(session_username, req_method, model_loaded,
                                  c_in[r].form, c_in[r].env) } :
        /\ c_local' = [c_local EXCEPT ![r] = o]
        /\ c_pc' = [c_pc EXCEPT ![r] = IF o.chart_due THEN "chart" ELSE "render"]
        /\ clf_calls' = clf_calls \o o.outcome.clf_calls
    /\ UNCHANGED << model_loaded, session_username, req_method, req_form, env, pc,
                    resp_kind, flashes, input_data, feature_values,
                    prediction_result, recommendations_packed, chart_file,
                    c_in, c_chart_at_return, bvars, svars >>

ConcSaveChart(r) ==
    /\ c_pc[r] = "chart"
    /\ chart_file' = SaveChart(c_in[r].env, chart_file)
    /\ c_pc' = [c_pc EXCEPT ![r] = "render"]
    /\ UNCHANGED << model_loaded, session_username, req_method, req_form, env, pc,
                    resp_kind, flashes, input_data, feature_values, clf_calls,
                    prediction_result, recommendations_packed,
                    c_in, c_local, c_chart_at_return, bvars, svars >>

\* line 300: the page is rendered and returned; the chart it shows is the
\* file as it is now
ConcRender(r) ==
    /\ c_pc[r] = "render"
    /\ c_pc' = [c_pc EXCEPT ![r] = "returned"]
    /\ c_chart_at_return' = [c_chart_at_return EXCEPT ![r] = chart_file]
    /\ UNCHANGED << model_loaded, session_username, req_method, req_form, env, pc,
                    resp_kind, flashes, input_data, feature_values, clf_calls,
                    prediction_result, recommendations_packed, chart_file,
                    c_in, c_local, bvars, svars >>

InitConc ==
    /\ model_loaded = TRUE
    /\ session_username \in Usernames
    /\ req_method = "POST"
    /\ req_form = AllFive
    /\ env = NominalEnv
    /\ InitLocals
    /\ c_pc = [r \in Requests |-> "start"]
    /\ c_in \in [Requests -> [form : ConcForms, env : ConcEnvs]]
    /\ c_local = [r \in Requests |-> None]
    /\ c_chart_at_return = [r \in Requests |-> NoChart]
    /\ BotIdle
    /\ SessionIdle

NextConc ==
    \E r \in Requests : ConcScore(r) \/ ConcSaveChart(r) \/ ConcRender(r)

SpecConc == InitConc /\ [][NextConc]_vars

-----------------------------------------------------------------------------
(* chatbot_gemini.get_bot_response: lines 31-58. An error message is a     *)
(* sequence of one-character strings.                                      *)

\* bound on the max_retries argument (the default, 3, is among the values)
MaxRetriesArg == 3

wait_time == 12

UpperCase == <<"A", "B", "C", "D", "E", "F", "G", "H", "I", "J", "K", "L", "M", "N", "O", "P", "Q", "R", "S", "T", "U", "V", "W", "X", "Y", "Z">>
LowerCase == <<"a", "b", "c", "d", "e", "f", "g", "h", "i", "j", "k", "l", "m", "n", "o", "p", "q", "r", "s", "t", "u", "v", "w", "x", "y", "z">>

\* str.lower() on the ASCII letters
LowerChar(c) ==
    IF \E i \in 1..Len(UpperCase) : UpperCase[i] = c
    THEN LowerCase[CHOOSE i \in 1..Len(UpperCase) : UpperCase[i] = c]
    ELSE c

Lower(t) == [ i \in 1..Len(t) |-> LowerChar(t[i]) ]

\* sub in t
Contains(t, sub) ==
    \E i \in 1..(Len(t) - Len(sub) + 1) : SubSeq(t, i, i + Len(sub) - 1) = sub

STR_429 == <<"4", "2", "9">>
STR_QUOTA == <<"q", "u", "o", "t", "a">>
STR_BAD_KEY == <<"A", "P", "I", " ", "k", "e", "y", " ", "n", "o", "t", " ", "v", "a", "l", "i", "d">>

MSG_BAD_KEY == "There seems to be an issue with the API key. Please verify it is correct."
MSG_ISSUE == "I'm sorry, I encountered an issue while trying to respond."
MSG_LIMITS == "I'm sorry, I'm still hitting limits. Please try again later."

\* variant: every error is taken for a rate limit
BotIsRateLimitAlways(error_msg) == TRUE

\* line 46
BotIsRateLimit(error_msg) ==
    Contains(error_msg, STR_429) \/ Contains(Lower(error_msg), STR_QUOTA)

\* line 53
BotIsBadKey(error_msg) == Contains(error_msg, STR_BAD_KEY)

\* the texts response.text can be
Replies == { "Take a short walk.", "" }

\* the messages of the exceptions start_chat, send_message or response.text
\* can raise
ErrorMessages ==
    { <<"4", "2", "9", " ", "T", "o", "o", " ", "M", "a", "n", "y">>,
      <<"Q", "u", "o", "t", "a", " ", "e", "x", "c", "e", "e", "d", "e", "d">>,
      <<"o", "v", "e", "r", " ", "q", "u", "o", "t", "a">>,
      <<"A", "P", "I", " ", "k", "e", "y", " ", "n", "o", "t", " ", "v", "a", "l", "i", "d", ".">>,
      <<"A", "P", "I", " ", "k", "e", "y", " ", "n", "o", "t", " ", "v", "a", "l", "i", "d", " ", "4", "2", "9">>,
      <<"t", "i", "m", "e", "d", " ", "o", "u", "t">>,
      <<>> }

\* lines 37-40: the attempt succeeds
BotSendOk ==
    /\ bot_pc = "loop"
    /\ bot_retries < bot_max_retries
    /\ bot_attempts' = bot_attempts + 1
    /\ \E text \in Replies : bot_result' = text
    /\ bot_pc' = "returned"
    /\ UNCHANGED << bot_max_retries, bot_retries, bot_slept, bot_printed >>
    /\ UNCHANGED << model_loaded, session_username, req_method, req_form, env, pc,
                    resp_kind, flashes, input_data, feature_values, clf_calls,
                    prediction_result, recommendations_packed, chart_file, cvars, svars >>

\* lines 37-56: the attempt raises
BotSendError ==
    /\ bot_pc = "loop"
    /\ bot_retries < bot_max_retries
    /\ bot_attempts' = bot_attempts + 1
    /\ \E error_msg \in ErrorMessages :
        /\ bot_printed' = Append(bot_printed, error_msg)
        /\ IF BotIsRateLimit(error_msg)
           THEN /\ bot_slept' = bot_slept + wait_time
                /\ bot_retries' = bot_retries + 1
                /\ UNCHANGED << bot_pc, bot_result >>
           ELSE /\ bot_result' = IF BotIsBadKey(error_msg) THEN MSG_BAD_KEY ELSE MSG_ISSUE
                /\ bot_pc' = "returned"
                /\ UNCHANGED << bot_slept, bot_retries >>
    /\ UNCHANGED bot_max_retries
    /\ UNCHANGED << model_loaded, session_username, req_method, req_form, env, pc,
                    resp_kind, flashes, input_data, feature_values, clf_calls,
                    prediction_result, recommendations_packed, chart_file, cvars, svars >>

\* lines 36 and 58: the loop condition fails
BotGiveUp ==
    /\ bot_pc = "loop"
    /\ ~(bot_retries < bot_max_retries)
    /\ bot_result' = MSG_LIMITS
    /\ bot_pc' = "returned"
    /\ UNCHANGED << bot_max_retries, bot_retries, bot_attempts, bot_slept, bot_printed >>
    /\ UNCHANGED << model_loaded, session_username, req_method, req_form, env, pc,
                    resp_kind, flashes, input_data, feature_values, clf_calls,
                    prediction_result, recommendations_packed, chart_file, cvars, svars >>

InitBot ==
    /\ model_loaded = TRUE
    /\ session_username \in Usernames
    /\ req_method = "POST"
    /\ req_form = AllFive
    /\ env = NominalEnv
    /\ InitLocals
    /\ ConcIdle
    /\ SessionIdle
    /\ bot_pc = "loop"
    /\ bot_max_retries \in 0..MaxRetriesArg
    /\ bot_retries = 0
    /\ bot_attempts = 0
    /\ bot_slept = 0
    /\ bot_printed = <<>>
    /\ bot_result = NotReturned

NextBot == BotSendOk \/ BotSendError \/ BotGiveUp

\* the function runs on: an attempt ends (the call returns or raises), a
\* sleep ends
SpecBot == InitBot /\ [][NextBot]_vars /\ WF_vars(NextBot)

-----------------------------------------------------------------------------
(* The routes of app.py as one browser session sees them, one request      *)
(* after the other: login (118-156), home (158-178), logout (180-185),     *)
(* predictor (187-308), advisor (310-330), download_pdf (335-489).         *)
(* A submitted text is a sequence of one-character strings.                *)

\* bound on what the session's requests store: reviews, scorings and chat
\* exchanges together
MaxStored == 2

FLASH_CREDENTIALS == "Please provide username and password."
FLASH_EXISTS == "Username already exists."
FLASH_WELCOME == "Welcome! Your account has been created."
FLASH_INVALID == "Invalid username or password."
FLASH_REVIEW == "Thank you for your review!"
FLASH_LOGGED_OUT == "You have been logged out."

\* f"Welcome, {new_user.username}! Your account has been created."
WelcomeFlash(username) ==
    [ message |-> FLASH_WELCOME, category |-> "success", username |-> username ]

\* the submitted usernames, passwords, actions, reviews and chat inputs
NameInputs == { <<"a">>, <<" ", "a", " ">>, <<"b">> }
PasswordInputs == { <<"p">>, <<"q">> }
EmptyLoginForm == [action |-> "none", username |-> <<>>, password |-> <<>>]
LoginForms ==
    [ action : { "signup", "login" }, username : NameInputs, password : PasswordInputs ]
    \cup { EmptyLoginForm,
           [action |-> "none", username |-> <<"a">>, password |-> <<"p">>],
           [action |-> "signup", username |-> <<" ">>, password |-> <<"p">>],
           [action |-> "login", username |-> <<"a">>, password |-> <<>>] }
TextInputs == { <<" ", "h", "i", " ">>, <<" ">>, <<>> }

\* a GET carries no form
LoginRequests ==
    { [method |-> "GET", form |-> EmptyLoginForm] }
    \cup [ method : { "POST" }, form : LoginForms ]
TextRequests ==
    { [method |-> "GET", text |-> <<>>] } \cup [ method : { "POST" }, text : TextInputs ]

\* the form of the session's predictor requests
SessionForms == { ExampleForm }

\* what get_bot_response returns to advisor
BotTexts == { "Take a short walk.", MSG_LIMITS }

\* how much the tables, the classifier's log and the chat history hold
Stored(rs, calls, chat) == Len(rs) + Len(calls) + (Len(chat.turns) \div 2)

\* line 135: db.query(User).filter(User.username == username).first()
UserExists(us, username) == username \in DOMAIN us

\* variant: any password is accepted for an existing user
PasswordMatchesAny(us, username, password) == UserExists(us, username)

\* lines 147-148: user and user.password == password
PasswordMatches(us, username, password) ==
    UserExists(us, username) /\ us[username] = password

\* lines 119-156: what login returns and leaves behind
LoginOutcome(us, sess_user, method, form) ==
    LET stay(fl) == [ resp_kind |-> "render_login", flashes |-> fl,
                      users |-> us, session_username |-> sess_user ]
        username == Strip(form.username)
        password == form.password
    IN  IF ~NotLoggedIn(sess_user)
        THEN [ resp_kind |-> "redirect_home", flashes |-> <<>>,
               users |-> us, session_username |-> sess_user ]
        ELSE IF method # "POST" THEN stay(<<>>)
        ELSE IF username = <<>> \/ password = <<>>
        THEN stay(<< Flash(FLASH_CREDENTIALS, "error") >>)
        ELSE IF form.action = "signup"
        THEN IF UserExists(us, username)
             THEN stay(<< Flash(FLASH_EXISTS, "error") >>)
             ELSE [ resp_kind |-> "redirect_home",
                    flashes |-> << WelcomeFlash(username) >>,
                    users |-> us @@ (username :> password),
                    session_username |-> username ]
        ELSE IF form.action = "login"
        THEN IF PasswordMatches(us, username, password)
             THEN [ resp_kind |-> "redirect_home", flashes |-> <<>>,
                    users |-> us, session_username |-> username ]
             ELSE stay(<< Flash(FLASH_INVALID, "error") >>)
        ELSE stay(<<>>)

\* lines 159-178: what home returns and leaves behind
HomeOutcome(rs, sess_user, method, review_content) ==
    LET content == Strip(review_content)
    IN  IF NotLoggedIn(sess_user)
        THEN [ resp_kind |-> "redirect_login", flashes |-> <<>>, reviews |-> rs ]
        ELSE IF method = "POST" /\ content # <<>>
        THEN [ resp_kind |-> "redirect_home",
               flashes |-> << Flash(FLASH_REVIEW, "success") >>,
               reviews |-> Append(rs, [author |-> sess_user, content |-> content]) ]
        ELSE [ resp_kind |-> "render_home", flashes |-> <<>>, reviews |-> rs ]

\* variant: the user turn is not kept
AdvisorAppendModelOnly(turns, user_input, reply) ==
    turns \o << [role |-> "model", parts |-> << reply >>] >>

\* lines 321-325: the two appends; "".join over the returned text gives
\* the text back
AdvisorAppend(turns, user_input, reply) ==
    turns \o << [role |-> "user", parts |-> << user_input >>],
                [role |-> "model", parts |-> << reply >>] >>

\* lines 311-330: what advisor returns and leaves in the session
AdvisorOutcome(chat, sess_user, method, raw_input, reply) ==
    LET user_input == Strip(raw_input)
        created == IF chat.present THEN chat ELSE [present |-> TRUE, turns |-> <<>>]
    IN  IF NotLoggedIn(sess_user)
        THEN [ resp_kind |-> "redirect_login", session_chat |-> chat ]
        ELSE IF method = "POST" /\ user_input # <<>>
        THEN [ resp_kind |-> "redirect_advisor",
               session_chat |-> [ present |-> TRUE,
                                  turns |-> AdvisorAppend(created.turns, user_input, reply) ] ]
        ELSE [ resp_kind |-> "render_advisor", session_chat |-> created ]

\* the variables only the predictor route writes
plocals == << input_data, feature_values, clf_calls, prediction_result,
              recommendations_packed, chart_file >>

\* what no route of this session writes
sfixed == << model_loaded, env, pc, cvars, bvars >>

Login ==
    \E rq \in LoginRequests :
        \E o \in { LoginOutcome(users, session_username, rq.method, rq.form) } :
            /\ s_req' = [route |-> "login", method |-> rq.method, form |-> rq.form]
            /\ resp_kind' = o.resp_kind
            /\ flashes' = o.flashes
            /\ users' = o.users
            /\ session_username' = o.session_username
            /\ UNCHANGED << reviews, session_chat, req_method, req_form,
                            plocals, sfixed >>

Home ==
    \E rq \in TextRequests :
        \E o \in { HomeOutcome(reviews, session_username, rq.method, rq.text) } :
            /\ Stored(o.reviews, clf_calls, session_chat) <= MaxStored
            /\ s_req' = [route |-> "home", method |-> rq.method,
                         review_content |-> rq.text]
            /\ resp_kind' = o.resp_kind
            /\ flashes' = o.flashes
            /\ reviews' = o.reviews
            /\ UNCHANGED << users, session_username, session_chat, req_method,
                            req_form, plocals, sfixed >>

\* lines 181-185
Logout ==
    /\ s_req' = [route |-> "logout", method |-> "GET"]
    /\ session_username' = NoKey
    /\ session_chat' = ChatAbsent
    /\ flashes' = << Flash(FLASH_LOGGED_OUT, "success") >>
    /\ resp_kind' = "redirect_login"
    /\ UNCHANGED << users, reviews, req_method, req_form, plocals, sfixed >>

SessionPredictor ==
    \E method \in { "GET", "POST" }, form \in SessionForms :
        \E o \in { PredictorLocals(session_username, method, model_loaded, form, env) } :
            /\ Stored(reviews, clf_calls \o o.outcome.clf_calls, session_chat) <= MaxStored
            /\ s_req' = [route |-> "predictor", method |-> method]
            /\ req_method' = method
            /\ req_form' = form
            /\ resp_kind' = o.resp_kind
            /\ flashes' = o.flashes
            /\ input_data' = o.outcome.input_data
            /\ feature_values' = o.outcome.feature_values
            /\ clf_calls' = clf_calls \o o.outcome.clf_calls
            /\ prediction_result' = o.outcome.prediction_result
            /\ recommendations_packed' = o.packed
            /\ chart_file' = IF o.chart_due THEN SaveChart(env, chart_file) ELSE chart_file
            /\ UNCHANGED << users, reviews, session_username, session_chat, sfixed >>

Advisor ==
    \E rq \in TextRequests, reply \in BotTexts :
        \E o \in { AdvisorOutcome(session_chat, session_username, rq.method,
                                  rq.text, reply) } :
            /\ Stored(reviews, clf_calls, o.session_chat) <= MaxStored
            /\ s_req' = [route |-> "advisor", method |-> rq.method,
                         user_input |-> rq.text]
            /\ resp_kind' = o.resp_kind
            /\ flashes' = <<>>
            /\ session_chat' = o.session_chat
            /\ UNCHANGED << users, reviews, session_username, req_method,
                            req_form, plocals, sfixed >>

\* lines 336-489: reads the session and the form, writes neither
DownloadPdf ==
    /\ s_req' = [route |-> "download_pdf", method |-> "POST"]
    /\ resp_kind' = "send_file"
    /\ flashes' = <<>>
    /\ UNCHANGED << users, reviews, session_username, session_chat, req_method,
                    req_form, plocals, sfixed >>

InitSession ==
    /\ model_loaded = TRUE
    /\ session_username = NoKey
    /\ req_method = "GET"
    /\ req_form = AllFive
    /\ env = NominalEnv
    /\ InitLocals
    /\ ConcIdle
    /\ BotIdle
    /\ SessionIdle

NextSession ==
    Login \/ Home \/ Logout \/ SessionPredictor \/ Advisor \/ DownloadPdf

SpecSession == InitSession /\ [][NextSession]_vars

-----------------------------------------------------------------------------
(* Properties of the predictor pipeline, checked under Spec *)

\* the request passed the login guard, is a POST and found the model loaded
PipelineRan ==
    /\ pc = "done"
    /\ session_username # NoKey
    /\ req_method = "POST"
    /\ model_loaded

\* ... and no step of the try block raised
Scored == PipelineRan /\ env.fault = "none"

HasLists(result) ==
    /\ result # None
    /\ "recommendations" \in DOMAIN result
    /\ "maintain" \in DOMAIN result

InList(list, f) == \E i \in 1..Len(list) : list[i].factor = f

Occurrences(list, f) == Cardinality({ i \in 1..Len(list) : list[i].factor = f })

IndexOf(f) == CHOOSE i \in DOMAIN MODEL_FEATURE_ORDER : MODEL_FEATURE_ORDER[i] = f

\* the submitted strings that are integer literals, with the integer they
\* denote, and those that are not
IntegerLiterals ==
    (<<"0">> :> 0) @@ (<<"3">> :> 3) @@ (<<"4">> :> 4) @@ (<<"5">> :> 5) @@
    (<<"6">> :> 6) @@ (<<"7">> :> 7) @@ (<<"9">> :> 9) @@ (<<"2">> :> 2) @@
    (<<"9", "9">> :> 99) @@ (<<"-", "1">> :> (0 - 1)) @@
    (<<" ", "3", " ">> :> 3) @@ (<<"1", "_", "0">> :> 10)

NonIntegerStrings == { <<>>, <<"a", "b", "c">>, <<"7", ".", "5">> }

\* C1: once the buckets are built, a feature is in the attention list iff its
\* collected value is >= 7, in the maintain list iff it is <= 3, and in
\* neither iff it is strictly between 3 and 7.
C1_BucketThresholds ==
    Scored =>
        /\ HasLists(prediction_result)
        /\ \A f \in Features :
            LET v == feature_values[f]
                att == InList(prediction_result.recommendations, f)
                mnt == InList(prediction_result.maintain, f)
            IN  /\ att <=> v >= 7
                /\ mnt <=> v <= 3
                /\ (~att /\ ~mnt) <=> (3 < v /\ v < 7)

C1_Witness ==
    /\ Scored
    /\ \E f, g, h, k \in Features :
        /\ feature_values[f] = 7 /\ InList(prediction_result.recommendations, f)
        /\ feature_values[g] = 3 /\ InList(prediction_result.maintain, g)
        /\ feature_values[h] = 4 /\ ~InList(prediction_result.recommendations, h)
        /\ ~InList(prediction_result.maintain, h)
        /\ feature_values[k] = 6 /\ ~InList(prediction_result.recommendations, k)
        /\ ~InList(prediction_result.maintain, k)

\* C2: every name that is absent from the form, or whose submitted value is
\* not an integer, gets the value 5 in the feature vector; no error is
\* flashed for it and the page is rendered; the feature is in neither list.
C2_MissingOrInvalidIsFive ==
    PipelineRan =>
        /\ Len(input_data) = Len(MODEL_FEATURE_ORDER)
        /\ DOMAIN feature_values = Features
        /\ resp_kind = "render_predictor"
        /\ env.fault = "none" => (flashes = <<>> /\ HasLists(prediction_result))
        /\ \A f \in Features :
            (~req_form[f].present \/ req_form[f].raw \in NonIntegerStrings) =>
                /\ input_data[IndexOf(f)] = 5
                /\ feature_values[f] = 5
                /\ clf_calls = << input_data >>
                /\ HasLists(prediction_result) =>
                    /\ ~InList(prediction_result.recommendations, f)
                    /\ ~InList(prediction_result.maintain, f)

C2_Witness ==
    /\ Scored
    /\ \E f, g \in Features :
        /\ ~req_form[f].present
        /\ feature_values[f] = 5
        /\ req_form[g].present
        /\ req_form[g].raw = <<"a", "b", "c">>
        /\ feature_values[g] = 5
        /\ ~InList(prediction_result.recommendations, g)
        /\ ~InList(prediction_result.maintain, g)
    /\ prediction_result.recommendations # <<>>
    /\ flashes = <<>>

\* C3 as stated: with the model not loaded, every POST to predictor runs no
\* collection and no scoring, flashes the "not loaded" message, raises
\* nothing and renders the page with no result and an empty packed string.
C3_Original ==
    (pc = "done" /\ ~model_loaded /\ req_method = "POST") =>
        /\ input_data = <<>>
        /\ feature_values = NoFeatureValues
        /\ clf_calls = <<>>
        /\ flashes = << Flash(FLASH_NOT_LOADED, "error") >>
        /\ resp_kind = "render_predictor"
        /\ prediction_result = None
        /\ recommendations_packed = <<>>

\* C3 amended: the same, for every POST of a session that holds a username;
\* a POST of a session without one is redirected to login, with no flash,
\* no collection and no scoring.
C3_ModelNotLoaded ==
    (pc = "done" /\ ~model_loaded /\ req_method = "POST") =>
        /\ input_data = <<>>
        /\ feature_values = NoFeatureValues
        /\ clf_calls = <<>>
        /\ chart_file = NoChart
        /\ prediction_result = None
        /\ recommendations_packed = <<>>
        /\ IF session_username # NoKey
           THEN /\ flashes = << Flash(FLASH_NOT_LOADED, "error") >>
                /\ resp_kind = "render_predictor"
           ELSE /\ flashes = <<>>
                /\ resp_kind = "redirect_login"

C3_Witness ==
    /\ pc = "done"
    /\ ~model_loaded
    /\ req_method = "POST"
    /\ session_username # NoKey
    /\ req_form = MixedForm
    /\ env.fault = "none"
    /\ flashes = << Flash(FLASH_NOT_LOADED, "error") >>
    /\ resp_kind = "render_predictor"

\* some submitted value makes int() raise during feature collection
CollectionRaised ==
    \E f \in Features : req_form[f].present /\ req_form[f].raw \in NonIntegerStrings

\* C4 as stated: with the model loaded, an exception raised at any step of
\* scoring, feature collection included, ends in the generic flash message,
\* and the page is rendered.
C4_Original ==
    (PipelineRan /\ (env.fault # "none" \/ CollectionRaised)) =>
        /\ resp_kind = "render_predictor"
        /\ \E i \in 1..Len(flashes) : flashes[i] = Flash(FLASH_PREDICTION_ERROR, "error")

\* C4 amended: an exception raised by predict_proba, by the choice of the
\* label, by bucketing or by packing ends in the generic flash message and
\* the rendered page; an exception raised by int() during feature collection
\* is caught inside the loop and replaced by 5, with no flash.
C4_ExceptionsCaught ==
    PipelineRan =>
        /\ resp_kind = "render_predictor"
        /\ env.fault # "none" =>
            /\ flashes = << Flash(FLASH_PREDICTION_ERROR, "error") >>
            /\ recommendations_packed = <<>>
        /\ env.fault = "none" =>
            /\ flashes = <<>>
            /\ HasLists(prediction_result)

C4_Witness ==
    /\ PipelineRan
    /\ env.fault = "pack"
    /\ CollectionRaised
    /\ flashes = << Flash(FLASH_PREDICTION_ERROR, "error") >>
    /\ resp_kind = "render_predictor"

LabelIndex(label) == CHOOSE i \in DOMAIN stress_labels : stress_labels[i] = label

\* C5: the reported label is the label of a class of maximal probability,
\* and of the lowest index among the classes that share the maximum.
C5_LabelIsArgMax ==
    Scored =>
        /\ prediction_result.level \in { "Low", "Medium", "High" }
        /\ LET p == env.clf
               i == LabelIndex(prediction_result.level)
           IN  /\ \A j \in 1..3 : p[j] <= p[i]
               /\ \A j \in 1..(i - 1) : p[j] < p[i]

C5_Witness ==
    /\ Scored
    /\ env.clf[2] = env.clf[3]
    /\ env.clf[1] < env.clf[2]
    /\ prediction_result.level = "Medium"

\* text.split("\n")
RECURSIVE SplitLines(_)
SplitLines(text) ==
    IF \A i \in 1..Len(text) : text[i] # NL THEN << text >>
    ELSE LET k == CHOOSE i \in 1..Len(text) :
                    text[i] = NL /\ \A j \in 1..(i - 1) : text[j] # NL
         IN  << SubSeq(text, 1, k - 1) >> \o SplitLines(SubSeq(text, k + 1, Len(text)))

IsItemLineOf(line, item) ==
    /\ Len(line) = 1
    /\ DOMAIN line[1] = { "human", "value", "tip" }
    /\ line[1].human = HumanName[item.factor]
    /\ line[1].value = item.value
    /\ line[1].tip = item.tip

\* C6: the packed text has an "Affected Parameters:" header followed by one
\* line per attention item iff the attention list is non-empty, a
\* "Parameters to Maintain:" header followed by one line per maintain item
\* iff the maintain list is non-empty, a blank line between the two sections
\* exactly when both are present, and is the single fallback line iff both
\* lists are empty.
C6_PackedShape ==
    Scored =>
        LET a == prediction_result.recommendations
            m == prediction_result.maintain
            text == recommendations_packed
            lines == SplitLines(text)
            at(s) == { i \in 1..Len(lines) : lines[i] = << [text |-> s] >> }
            blanks == { i \in 1..Len(lines) : lines[i] = <<>> }
            o == IF a # <<>> THEN Len(a) + 2 ELSE 0
        IN  /\ text = prediction_result.packed_recommendations
            /\ at(AFFECTED_HEADER) # {} <=> a # <<>>
            /\ a # <<>> =>
                /\ at(AFFECTED_HEADER) = { 1 }
                /\ Len(lines) >= 1 + Len(a)
                /\ \A i \in 1..Len(a) : IsItemLineOf(lines[1 + i], a[i])
            /\ at(MAINTAIN_HEADER) # {} <=> m # <<>>
            /\ m # <<>> =>
                /\ at(MAINTAIN_HEADER) = { o + 1 }
                /\ Len(lines) = o + 1 + Len(m)
                /\ \A i \in 1..Len(m) : IsItemLineOf(lines[o + 1 + i], m[i])
            /\ blanks = IF a # <<>> /\ m # <<>> THEN { Len(a) + 1 + 1 } ELSE {}
            /\ (a # <<>> /\ m = <<>>) => Len(lines) = 1 + Len(a)
            /\ text = << [text |-> FALLBACK_LINE] >> <=> (a = <<>> /\ m = <<>>)
            /\ at(FALLBACK_LINE) # {} <=> (a = <<>> /\ m = <<>>)

C6_Witness ==
    /\ Scored
    /\ Len(prediction_result.recommendations) >= 2
    /\ Len(prediction_result.maintain) >= 2
    /\ Len(SplitLines(recommendations_packed)) =
           Len(prediction_result.recommendations) + Len(prediction_result.maintain) + 3

\* C8: no feature is in both lists, and none is twice in a list.
C8_BucketsDisjoint ==
    (pc = "done" /\ HasLists(prediction_result)) =>
        \A f \in Features :
            /\ ~(InList(prediction_result.recommendations, f)
                 /\ InList(prediction_result.maintain, f))
            /\ Occurrences(prediction_result.recommendations, f) <= 1
            /\ Occurrences(prediction_result.maintain, f) <= 1

C8_Witness ==
    /\ Scored
    /\ Len(prediction_result.recommendations) >= 2
    /\ Len(prediction_result.maintain) >= 2
    /\ \E f \in Features :
        /\ ~InList(prediction_result.recommendations, f)
        /\ ~InList(prediction_result.maintain, f)

\* C9: a submitted integer, in the range 1..10 or not, is the value at the
\* feature's position of the vector handed to the classifier, and is
\* bucketed by the thresholds (>= 7 attention, <= 3 maintain).
C9_NoClamping ==
    PipelineRan =>
        /\ clf_calls = << input_data >>
        /\ \A f \in Features :
            (req_form[f].present /\ req_form[f].raw \in DOMAIN IntegerLiterals) =>
                LET n == IntegerLiterals[req_form[f].raw]
                IN  /\ clf_calls[1][IndexOf(f)] = n
                    /\ feature_values[f] = n
                    /\ HasLists(prediction_result) =>
                        /\ InList(prediction_result.recommendations, f) <=> n >= 7
                        /\ InList(prediction_result.maintain, f) <=> n <= 3

C9_Witness ==
    /\ Scored
    /\ \E f, g, h \in Features :
        /\ req_form[f].raw = <<"9", "9">>
        /\ clf_calls[1][IndexOf(f)] = 99
        /\ InList(prediction_result.recommendations, f)
        /\ req_form[g].raw = <<"0">>
        /\ clf_calls[1][IndexOf(g)] = 0
        /\ InList(prediction_result.maintain, g)
        /\ req_form[h].raw = <<"-", "1">>
        /\ clf_calls[1][IndexOf(h)] = 0 - 1
        /\ InList(prediction_result.maintain, h)

-----------------------------------------------------------------------------
(* Properties of concurrent predictor requests, checked under SpecConc *)

\* C7: requests are independent under any interleaving: the chart a request
\* has written shows, when the request returns its page, that request's own
\* probabilities, whatever the other request did meanwhile.
C7_RequestsIndependent ==
    \A r \in Requests :
        (c_pc[r] = "returned" /\ c_local[r].chart_due /\ c_in[r].env.chart_ok) =>
            LET p == c_in[r].env.clf
            IN  c_chart_at_return[r] = << p[1] * 100, p[2] * 100, p[3] * 100 >>

-----------------------------------------------------------------------------
(* Properties of get_bot_response, checked under SpecBot *)

\* the error messages that contain "429" or, in any case, "quota"
RateLimitMessages ==
    { <<"4", "2", "9", " ", "T", "o", "o", " ", "M", "a", "n", "y">>,
      <<"Q", "u", "o", "t", "a", " ", "e", "x", "c", "e", "e", "d", "e", "d">>,
      <<"o", "v", "e", "r", " ", "q", "u", "o", "t", "a">>,
      <<"A", "P", "I", " ", "k", "e", "y", " ", "n", "o", "t", " ", "v", "a", "l", "i", "d", " ", "4", "2", "9">> }

BotSucceeded == bot_result \in Replies

BotSafe ==
    LET n == Len(bot_printed)
        limited(i) == bot_printed[i] \in RateLimitMessages
    IN  /\ bot_attempts <= bot_max_retries
        /\ bot_attempts = n + (IF BotSucceeded THEN 1 ELSE 0)
        /\ \A i \in 1..(n - 1) : limited(i)
        /\ bot_slept = 12 * Cardinality({ i \in 1..n : limited(i) })
        /\ bot_pc = "loop" => (bot_result = NotReturned /\ \A i \in 1..n : limited(i))
        /\ bot_pc = "returned" =>
            /\ bot_result \in Replies \cup { MSG_BAD_KEY, MSG_ISSUE, MSG_LIMITS }
            /\ (n > 0 /\ ~limited(n)) => bot_result \in { MSG_BAD_KEY, MSG_ISSUE }
            /\ (~BotSucceeded /\ \A i \in 1..n : limited(i)) =>
                (bot_result = MSG_LIMITS /\ bot_attempts = bot_max_retries)

\* C10: get_bot_response returns, and returns a text; it makes at most
\* max_retries attempts; an attempt follows another only after an error
\* whose message contains "429" or "quota", and after 12 seconds of sleep;
\* any other error ends the call with an error message; when every attempt
\* hit the rate limit the "still hitting limits" message is returned.
C10_BoundedRetry == []BotSafe /\ <>(bot_pc = "returned")

C10_Witness ==
    /\ bot_pc = "returned"
    /\ bot_max_retries = 3
    /\ bot_attempts = 3
    /\ bot_slept = 36
    /\ \A i \in 1..Len(bot_printed) : bot_printed[i] \in RateLimitMessages
    /\ bot_result = MSG_LIMITS

(***************************************************************************)
(* Properties of the session's routes, checked under SpecSession           *)
(***************************************************************************)

\* what str.strip() leaves of each text a form field carries
StrippedText ==
    (<< " ", "h", "i", " " >> :> << "h", "i" >>)
    @@ (<< " " >> :> <<>>)
    @@ (<<>> :> <<>>)

\* the history is user, model, user, model, ... and of even length
ChatAlternates ==
    LET turns == session_chat.turns
    IN  /\ Len(turns) % 2 = 0
        /\ \A i \in 1..Len(turns) :
               turns[i].role = IF i % 2 = 1 THEN "user" ELSE "model"

\* new is old followed by one user turn holding the text and one model turn
GrewByOneExchange(old, new, text) ==
    /\ Len(new) = Len(old) + 2
    /\ SubSeq(new, 1, Len(old)) = old
    /\ new[Len(old) + 1] = [role |-> "user", parts |-> << text >>]
    /\ new[Len(old) + 2].role = "model"
    /\ Len(new[Len(old) + 2].parts) = 1

\* the step is an advisor POST
AdvisorPosted == s_req'.route = "advisor" /\ s_req'.method = "POST"

\* what one request does to the history, as the claim words it: every POST
\* of a non-empty input appends
ChatStepOriginal ==
    IF s_req'.route = "logout"
    THEN session_chat' = ChatAbsent
    ELSE /\ session_chat.present => session_chat'.present
         /\ IF AdvisorPosted /\ s_req'.user_input # <<>>
            THEN \E text \in { s_req'.user_input, StrippedText[s_req'.user_input] } :
                     GrewByOneExchange(session_chat.turns, session_chat'.turns, text)
            ELSE session_chat'.turns = session_chat.turns

\* what one request does to the history: only the POST of a session that
\* holds a username, with an input that is not empty once stripped, appends
ChatStep ==
    IF s_req'.route = "logout"
    THEN session_chat' = ChatAbsent
    ELSE /\ session_chat.present => session_chat'.present
         /\ IF /\ AdvisorPosted
               /\ session_username # NoKey
               /\ StrippedText[s_req'.user_input] # <<>>
            THEN GrewByOneExchange(session_chat.turns, session_chat'.turns,
                                   StrippedText[s_req'.user_input])
            ELSE session_chat'.turns = session_chat.turns

\* C11, as stated: the history strictly alternates user and model turns and
\* has even length; every advisor POST with non-empty input appends exactly
\* one user turn and then one model turn, an empty input appends nothing,
\* no request truncates or reorders the history and only logout removes it.
C11_Original == []ChatAlternates /\ [][ChatStepOriginal]_vars

\* C11, amended: the history strictly alternates user and model turns and
\* has even length; an advisor POST appends exactly one user turn, holding
\* the stripped input, and then one model turn when the session holds a
\* username and the input is not empty after stripping; every other request
\* but logout leaves the turns as they are and never removes the history;
\* logout removes it.
C11_ChatHistory == []ChatAlternates /\ [][ChatStep]_vars

\* two exchanges are in the history, the second just appended
C11_Witness ==
    /\ s_req.route = "advisor"
    /\ s_req.method = "POST"
    /\ resp_kind = "redirect_advisor"
    /\ session_chat.present
    /\ Len(session_chat.turns) = 4
    /\ session_chat.turns[3] = [role |-> "user", parts |-> << << "h", "i" >> >>]
    /\ session_chat.turns[4].role = "model"

\* what str.strip() leaves of each username a form carries
StrippedName ==
    (<< "a" >> :> << "a" >>)
    @@ (<< " ", "a", " " >> :> << "a" >>)
    @@ (<< "b" >> :> << "b" >>)
    @@ (<< " " >> :> <<>>)
    @@ (<<>> :> <<>>)

\* the username the session holds is one of the users table
HeldUserExists == session_username # NoKey => session_username \in DOMAIN users

\* the step is a POST to login that signs up an unused name or logs in with
\* the stored password of the name, and the session holds that name after it
EntersByCredentials ==
    /\ s_req'.route = "login"
    /\ s_req'.method = "POST"
    /\ LET name == StrippedName[s_req'.form.username]
           password == s_req'.form.password
       IN  /\ name # <<>>
           /\ session_username' = name
           /\ \/ /\ s_req'.form.action = "signup"
                 /\ name \notin DOMAIN users
                 /\ users' = users @@ (name :> password)
              \/ /\ s_req'.form.action = "login"
                 /\ name \in DOMAIN users
                 /\ users[name] = password
                 /\ users' = users

\* a session gets a username only through login, and loses it only by logout
UsernameStep ==
    session_username' # session_username =>
        IF session_username' = NoKey
        THEN s_req'.route = "logout"
        ELSE session_username = NoKey /\ EntersByCredentials

\* without a username home, predictor and advisor redirect and write nothing:
\* the tables, the session, the classifier's log and the chart file stay as
\* they are, and the locals of a predictor request hold no input and no result
GuardedStep ==
    (session_username = NoKey /\ s_req'.route \in { "home", "predictor", "advisor" }) =>
        /\ resp_kind' = "redirect_login"
        /\ flashes' = <<>>
        /\ UNCHANGED << users, reviews, session_chat, session_username,
                        clf_calls, chart_file >>
        /\ s_req'.route = "predictor" =>
               /\ input_data' = <<>>
               /\ prediction_result' = None
               /\ recommendations_packed' = <<>>

\* C12: a session holds a username only if, since its last logout, it
\* completed a signup with a previously unused username or a login whose
\* submitted password equals the stored password of that user; while the
\* session holds no username, home, predictor and advisor only redirect to
\* login and change no state: no review is stored, no scoring is run, no
\* chat history is created.
C12_SessionGuard == []HeldUserExists /\ [][UsernameStep /\ GuardedStep]_vars

\* after a logout, the session of a table of two users with different
\* passwords has logged in with the stored password
C12_Witness ==
    /\ s_req.route = "login"
    /\ s_req.method = "POST"
    /\ s_req.form.action = "login"
    /\ resp_kind = "redirect_home"
    /\ session_username = << "a" >>
    /\ DOMAIN users = { << "a" >>, << "b" >> }
    /\ users[<< "a" >>] # users[<< "b" >>]
    /\ users[<< "a" >>] = s_req.form.password

====
